---- MODULE Spec2Model ----
(***************************************************************************)
(* Model of windows-thumbnail-preloader: preload (src/src/preloader.rs),   *)
(* generate (src/src/preloader.rs) and the caller main (src/src/main.rs).  *)
(* One step per external call (filesystem, COM, progress dialog, thumbnail *)
(* cache); the result of every external call is chosen by the environment. *)
(* `trace` is the history of external calls with their results, `output`   *)
(* the lines written by println!.  Elapsed times are not modelled.         *)
(* Spec is one run, SpecFair one run in which every external call returns, *)
(* SpecTwice two runs in the same environment, SpecConv the u32            *)
(* conversion of the progress values on its own.                           *)
(***************************************************************************)
EXTENDS Integers, Sequences, FiniteSets, TLC

\* Largest number of direct entries the listed directory holds.
MaxEntries == 3

\* DIMENSIONS: the requested thumbnail size.
DIMENSIONS == 72

VARIABLES
    pc,          \* position in main/preload/generate
    files,       \* preload's `files`: paths, in listing order
    index,       \* the enumerate() index of the for loop (0-based)
    result,      \* value returned by preload: "none" | "Ok" | a PreloadError tag
    trace,       \* external calls made by this run, with their results
    output,      \* lines printed by this run
    run,         \* 1 for the first run of the program, 2 for the second
    prevTrace,   \* trace of the first run (once it is over)
    prevResult,  \* result of the first run
    prevOutput,  \* output of the first run
    bind_ctx,    \* preload's `bind_ctx`: the handle CreateBindCtx returned
    thumb_cache, \* preload's `thumb_cache`: the handle CoCreateInstance returned
    usize_index, \* the conversion alone: `index` as a usize, in base 2^16
    usize_len    \* the conversion alone: `files.len()` as a usize, in base 2^16

vars == <<pc, files, index, result, trace, output, run, prevTrace, prevResult, prevOutput,
          bind_ctx, thumb_cache, usize_index, usize_len>>

----------------------------------------------------------------------------
(* Data *)

\* What one item of the read_dir iterator can be: an entry whose path
\* canonicalizes, an Err item, or an entry whose dunce::canonicalize fails.
EntryKinds == {"ok", "read_err", "canon_err"}

RECURSIVE SeqsUpTo(_, _)
SeqsUpTo(S, n) ==
    IF n = 0 THEN {<<>>}
    ELSE LET shorter == SeqsUpTo(S, n - 1)
         IN  shorter \cup {Append(s, x) : s \in {t \in shorter : Len(t) = n - 1}, x \in S}

\* The directory listings the environment can answer read_dir with.
Listings == SeqsUpTo(EntryKinds, MaxEntries)

\* dunce::canonicalize(d.path()) of the i-th entry; a path is named by the
\* position of its entry in the listing.
RECURSIVE CollectFrom(_, _)
CollectFrom(listing, i) ==
    IF i > Len(listing) THEN <<>>
    ELSE IF listing[i] = "ok" THEN <<i>> \o CollectFrom(listing, i + 1)
    ELSE CollectFrom(listing, i + 1)

\* A version of Collect that extends the vector it already holds.
CollectExtend(listing) == files \o CollectFrom(listing, 1)

\* A version of Collect that stops at the first entry that cannot be read
\* or canonicalized.
CollectStopsAtError(listing) ==
    LET bad == {i \in 1..Len(listing) : listing[i] # "ok"}
        stop == IF bad = {} THEN Len(listing) + 1
                ELSE CHOOSE i \in bad : \A k \in bad : i <= k
    IN  [i \in 1..(stop - 1) |-> i]

\* .flatten().map(canonicalize).flatten().collect(): a fresh vector of the
\* entries that were read and whose path canonicalized, in listing order.
Collect(listing) == CollectFrom(listing, 1)

\* A usize is written hi * 2^32 + mid * 2^16 + lo with mid, lo < 2^16, and a
\* u32 mid * 2^16 + lo, so that values beyond 2^31 can be told apart.
\* The usize of a number n the model counts to (n < 2^31).
ToUsize(n) == [hi |-> 0, mid |-> n \div 65536, lo |-> n % 65536]

\* A version of TryFromUsize that keeps the low 32 bits (`as u32`).
TruncateUsize(w) == <<[mid |-> w.mid, lo |-> w.lo]>>

\* u32::try_from(usize), as try_into() calls it: the same value when it is at
\* most u32::MAX = 2^32 - 1, or no value.
TryFromUsize(w) == IF w.hi = 0 THEN <<[mid |-> w.mid, lo |-> w.lo]>> ELSE <<>>

\* usize -> u32 try_into of a number n the model counts to: the value itself,
\* or no value (expect panics).
TryIntoU32(n) == IF TryFromUsize(ToUsize(n)) # <<>> THEN <<n>> ELSE <<>>

\* Values of index and files.len() the conversion is tried on: around 0,
\* 2^16, u32::MAX and 2^32.
UsizeSamples == [hi : {0, 1}, mid : {0, 65535}, lo : {0, 1, 65535}]

\* v < w.
UsizeLess(v, w) ==
    \/ v.hi < w.hi
    \/ (v.hi = w.hi /\ v.mid < w.mid)
    \/ (v.hi = w.hi /\ v.mid = w.mid /\ v.lo < w.lo)

\* One external call: its name, its arguments, the result and (read_dir) the data.
Call(c, a, r, d) == [call |-> c, arg |-> a, resp |-> r, data |-> d]

\* The results the environment may give the next external call.  In a second
\* run "the same environment responses" are given: a call that repeats the
\* first run's call at the same position gets the first run's result.
Replayed(c, a) ==
    /\ run = 2
    /\ Len(trace) < Len(prevTrace)
    /\ prevTrace[Len(trace) + 1].call = c
    /\ prevTrace[Len(trace) + 1].arg = a

Responses(c, a, all) ==
    IF Replayed(c, a) THEN {prevTrace[Len(trace) + 1].resp} ELSE all

ListingsNow ==
    IF Replayed("read_dir", <<>>) THEN {prevTrace[Len(trace) + 1].data} ELSE Listings

\* The external call c(a) is made and answers r.
Ext(c, a, r, all) ==
    /\ r \in Responses(c, a, all)
    /\ trace' = Append(trace, Call(c, a, r, <<>>))

OkErr == {"ok", "err"}

\* The interface pointers the environment can hand out.
BindCtxHandles == {"ctx_a", "ctx_b"}
ThumbCacheHandles == {"cache_a", "cache_b"}

\* The handle a successful creation call c returns (the first run's handle
\* when the call repeats the first run's).
HandlesNow(c, all) ==
    IF Replayed(c, <<>>) THEN {prevTrace[Len(trace) + 1].data[1]} ELSE all

\* println!: the lines are appended to the output.
Println(lines) == output' = output \o lines

\* `?` on an Err: preload returns the tagged error.
Fatal(tag) == /\ result' = tag
              /\ pc' = "returned"

Keep == UNCHANGED <<run, prevTrace, prevResult, prevOutput, usize_index, usize_len>>

\* A step that creates neither the bind context nor the thumbnail cache.
KeepHandles == UNCHANGED <<bind_ctx, thumb_cache>>

----------------------------------------------------------------------------
Init ==
    /\ pc = "canonicalize"
    /\ files = <<>>
    /\ index = 0
    /\ result = "none"
    /\ trace = <<>>
    /\ output = <<>>
    /\ run = 1
    /\ prevTrace = <<>>
    /\ prevResult = "none"
    /\ prevOutput = <<>>
    /\ bind_ctx = "null"
    /\ thumb_cache = "null"
    /\ usize_index = ToUsize(0)
    /\ usize_len = ToUsize(0)

----------------------------------------------------------------------------
(* Setup stages of preload *)

CanonicalizeOk ==
    /\ pc = "canonicalize"
    /\ Ext("canonicalize", <<>>, "ok", OkErr)
    /\ Println(<<[line |-> "PreloadingDirectory"], [line |-> "Searching"]>>)
    /\ pc' = "read_dir"
    /\ UNCHANGED <<files, index, result>> /\ Keep /\ KeepHandles

CanonicalizeErr ==
    /\ pc = "canonicalize"
    /\ Ext("canonicalize", <<>>, "err", OkErr)
    /\ Println(<<[line |-> "PreloadingDirectory"]>>)
    /\ Fatal("InvalidDirectory")
    /\ UNCHANGED <<files, index>> /\ Keep /\ KeepHandles

ReadDirOk ==
    /\ pc = "read_dir"
    /\ "ok" \in Responses("read_dir", <<>>, OkErr)
    /\ \E listing \in ListingsNow :
         /\ trace' = Append(trace, Call("read_dir", <<>>, "ok", listing))
         /\ files' = Collect(listing)
    /\ Println(<<[line |-> "Searched", n |-> Len(files')], [line |-> "InitialisingCOM"]>>)
    /\ pc' = "co_initialize"
    /\ UNCHANGED <<index, result>> /\ Keep /\ KeepHandles

ReadDirErr ==
    /\ pc = "read_dir"
    /\ Ext("read_dir", <<>>, "err", OkErr)
    /\ Fatal("FailedToReadDirectory")
    /\ UNCHANGED <<files, index, output>> /\ Keep /\ KeepHandles

CoInitializeOk ==
    /\ pc = "co_initialize"
    /\ Ext("CoInitialize", <<>>, "ok", OkErr)
    /\ Println(<<[line |-> "CreatingThumbnailCache"]>>)
    /\ pc' = "create_bind_ctx"
    /\ UNCHANGED <<files, index, result>> /\ Keep /\ KeepHandles

CoInitializeErr ==
    /\ pc = "co_initialize"
    /\ Ext("CoInitialize", <<>>, "err", OkErr)
    /\ Fatal("FailedToInitialiseCOM")
    /\ UNCHANGED <<files, index, output>> /\ Keep /\ KeepHandles

CreateBindCtxOk ==
    /\ pc = "create_bind_ctx"
    /\ "ok" \in Responses("CreateBindCtx", <<>>, OkErr)
    /\ \E h \in HandlesNow("CreateBindCtx", BindCtxHandles) :
         /\ trace' = Append(trace, Call("CreateBindCtx", <<>>, "ok", <<h>>))
         /\ bind_ctx' = h
    /\ pc' = "create_thumb_cache"
    /\ UNCHANGED <<files, index, result, output, thumb_cache>> /\ Keep

CreateBindCtxErr ==
    /\ pc = "create_bind_ctx"
    /\ Ext("CreateBindCtx", <<>>, "err", OkErr)
    /\ Fatal("FailedToCreateBindContext")
    /\ UNCHANGED <<files, index, output>> /\ Keep /\ KeepHandles

CreateThumbCacheOk ==
    /\ pc = "create_thumb_cache"
    /\ "ok" \in Responses("CoCreateInstanceThumbnailCache", <<>>, OkErr)
    /\ \E h \in HandlesNow("CoCreateInstanceThumbnailCache", ThumbCacheHandles) :
         /\ trace' = Append(trace, Call("CoCreateInstanceThumbnailCache", <<>>, "ok", <<h>>))
         /\ thumb_cache' = h
    /\ Println(<<[line |-> "CreatingProgressDialog"]>>)
    /\ pc' = "create_dialog"
    /\ UNCHANGED <<files, index, result, bind_ctx>> /\ Keep

\* A version of CreateThumbCacheErr that tags the error as the bind context's.
CreateThumbCacheErrBindTag ==
    /\ pc = "create_thumb_cache"
    /\ Ext("CoCreateInstanceThumbnailCache", <<>>, "err", OkErr)
    /\ Fatal("FailedToCreateBindContext")
    /\ UNCHANGED <<files, index, output>> /\ Keep /\ KeepHandles

CreateThumbCacheErr ==
    /\ pc = "create_thumb_cache"
    /\ Ext("CoCreateInstanceThumbnailCache", <<>>, "err", OkErr)
    /\ Fatal("FailedToCreateThumbnailCache")
    /\ UNCHANGED <<files, index, output>> /\ Keep /\ KeepHandles

CreateDialogOk ==
    /\ pc = "create_dialog"
    /\ Ext("CoCreateInstanceProgressDialog", <<>>, "ok", OkErr)
    /\ pc' = "set_title"
    /\ UNCHANGED <<files, index, result, output>> /\ Keep /\ KeepHandles

CreateDialogErr ==
    /\ pc = "create_dialog"
    /\ Ext("CoCreateInstanceProgressDialog", <<>>, "err", OkErr)
    /\ Fatal("FailedToCreateProgressDialog")
    /\ UNCHANGED <<files, index, output>> /\ Keep /\ KeepHandles

SetTitleOk ==
    /\ pc = "set_title"
    /\ Ext("SetTitle", <<>>, "ok", OkErr)
    /\ pc' = "set_line1"
    /\ UNCHANGED <<files, index, result, output>> /\ Keep /\ KeepHandles

SetTitleErr ==
    /\ pc = "set_title"
    /\ Ext("SetTitle", <<>>, "err", OkErr)
    /\ Fatal("FailedToCreateProgressDialog")
    /\ UNCHANGED <<files, index, output>> /\ Keep /\ KeepHandles

SetLine1Ok ==
    /\ pc = "set_line1"
    /\ Ext("SetLine", <<1, Len(files)>>, "ok", OkErr)
    /\ pc' = "start_dialog"
    /\ UNCHANGED <<files, index, result, output>> /\ Keep /\ KeepHandles

SetLine1Err ==
    /\ pc = "set_line1"
    /\ Ext("SetLine", <<1, Len(files)>>, "err", OkErr)
    /\ Fatal("FailedToCreateProgressDialog")
    /\ UNCHANGED <<files, index, output>> /\ Keep /\ KeepHandles

\* A version of StartProgressDialogErr that drops the error and enters the loop.
StartProgressDialogErrIgnored ==
    /\ pc = "start_dialog"
    /\ Ext("StartProgressDialog", <<>>, "err", OkErr)
    /\ Println(<<[line |-> "PreloadingFiles", n |-> Len(files)]>>)
    /\ index' = 0
    /\ pc' = "for"
    /\ UNCHANGED <<files, result>> /\ Keep /\ KeepHandles

StartProgressDialogOk ==
    /\ pc = "start_dialog"
    /\ Ext("StartProgressDialog", <<>>, "ok", OkErr)
    /\ Println(<<[line |-> "PreloadingFiles", n |-> Len(files)]>>)
    /\ index' = 0
    /\ pc' = "for"
    /\ UNCHANGED <<files, result>> /\ Keep /\ KeepHandles

StartProgressDialogErr ==
    /\ pc = "start_dialog"
    /\ Ext("StartProgressDialog", <<>>, "err", OkErr)
    /\ Fatal("FailedToShowProgressDialog")
    /\ UNCHANGED <<files, index, output>> /\ Keep /\ KeepHandles

----------------------------------------------------------------------------
(* The per-item loop of preload *)

\* The path of the current item.
path == files[index + 1]

\* for (index, path) in files.iter().enumerate(): the next item, if any.
ForNext ==
    /\ pc = "for"
    /\ index < Len(files)
    /\ pc' = "poll"
    /\ UNCHANGED <<files, index, result, trace, output>> /\ Keep /\ KeepHandles

\* The iterator is exhausted: the loop ends.
ForExhausted ==
    /\ pc = "for"
    /\ index >= Len(files)
    /\ Println(<<[line |-> "Preloaded"]>>)
    /\ pc' = "stop_dialog"
    /\ UNCHANGED <<files, index, result, trace>> /\ Keep /\ KeepHandles

\* A version of HasUserCancelledTrue that returns Ok(()) from inside the loop.
HasUserCancelledTrueReturns ==
    /\ pc = "poll"
    /\ Ext("HasUserCancelled", <<>>, "true", {"true", "false"})
    /\ result' = "Ok"
    /\ pc' = "returned"
    /\ UNCHANGED <<files, index, output>> /\ Keep /\ KeepHandles

\* A version of HasUserCancelledTrue that announces the item before the poll.
HasUserCancelledTruePrints ==
    /\ pc = "poll"
    /\ Ext("HasUserCancelled", <<>>, "true", {"true", "false"})
    /\ Println(<<[line |-> "PreloadingFile", n |-> index + 1, of |-> Len(files), path |-> path],
                 [line |-> "Preloaded"]>>)
    /\ pc' = "stop_dialog"
    /\ UNCHANGED <<files, index, result>> /\ Keep /\ KeepHandles

\* A version of HasUserCancelledTrue that skips the item (continue).
HasUserCancelledTrueContinues ==
    /\ pc = "poll"
    /\ Ext("HasUserCancelled", <<>>, "true", {"true", "false"})
    /\ index' = index + 1
    /\ pc' = "for"
    /\ UNCHANGED <<files, result, output>> /\ Keep /\ KeepHandles

\* HasUserCancelled() is true: break.
HasUserCancelledTrue ==
    /\ pc = "poll"
    /\ Ext("HasUserCancelled", <<>>, "true", {"true", "false"})
    /\ Println(<<[line |-> "Preloaded"]>>)
    /\ pc' = "stop_dialog"
    /\ UNCHANGED <<files, index, result>> /\ Keep /\ KeepHandles

\* HasUserCancelled() is false: the item is announced and the progress
\* values are converted to u32 (expect panics when one does not fit).
HasUserCancelledFalse ==
    /\ pc = "poll"
    /\ Ext("HasUserCancelled", <<>>, "false", {"true", "false"})
    /\ Println(<<[line |-> "PreloadingFile", n |-> index + 1, of |-> Len(files), path |-> path]>>)
    /\ pc' = IF TryIntoU32(index) = <<>> \/ TryIntoU32(Len(files)) = <<>>
             THEN "panicked" ELSE "set_progress"
    /\ UNCHANGED <<files, index, result>> /\ Keep /\ KeepHandles

\* A version of ProgressArgs that counts the current item as done.
ProgressArgsOffByOne == <<TryIntoU32(index + 1)[1], TryIntoU32(Len(files))[1]>>

\* (current, total) as passed to SetProgress.
ProgressArgs == <<TryIntoU32(index)[1], TryIntoU32(Len(files))[1]>>

SetProgressOk ==
    /\ pc = "set_progress"
    /\ Ext("SetProgress", ProgressArgs, "ok", OkErr)
    /\ pc' = "set_line2"
    /\ UNCHANGED <<files, index, result, output>> /\ Keep /\ KeepHandles

SetProgressErr ==
    /\ pc = "set_progress"
    /\ Ext("SetProgress", ProgressArgs, "err", OkErr)
    /\ Fatal("FailedToUpdateProgressDialog")
    /\ UNCHANGED <<files, index, output>> /\ Keep /\ KeepHandles

SetLine2Ok ==
    /\ pc = "set_line2"
    /\ Ext("SetLine", <<2, path>>, "ok", OkErr)
    /\ pc' = "create_shell_item"
    /\ UNCHANGED <<files, index, result, output>> /\ Keep /\ KeepHandles

\* A version of SetLine2Err that prints the error and goes on with the item.
SetLine2ErrContinues ==
    /\ pc = "set_line2"
    /\ Ext("SetLine", <<2, path>>, "err", OkErr)
    /\ Println(<<[line |-> "FailedToPreloadFile", err |-> "FailedToUpdateProgressDialog"]>>)
    /\ pc' = "create_shell_item"
    /\ UNCHANGED <<files, index, result>> /\ Keep /\ KeepHandles

SetLine2Err ==
    /\ pc = "set_line2"
    /\ Ext("SetLine", <<2, path>>, "err", OkErr)
    /\ Fatal("FailedToUpdateProgressDialog")
    /\ UNCHANGED <<files, index, output>> /\ Keep /\ KeepHandles

----------------------------------------------------------------------------
(* generate, and what preload does with its result *)

\* generate(&bind_ctx, &thumb_cache, path): the handles created in the setup
\* are passed on to SHCreateItemFromParsingName and GetThumbnail.

\* generate returned Err(tag): preload prints the error; the body of the
\* loop is over and the iteration goes on with the next item.
LogLocal(tag) ==
    /\ Println(<<[line |-> "FailedToPreloadFile", err |-> tag]>>)
    /\ index' = index + 1
    /\ pc' = "for"

\* A version of SHCreateItemOk that passes no bind context.
SHCreateItemOkNullCtx ==
    /\ pc = "create_shell_item"
    /\ Ext("SHCreateItemFromParsingName", <<path, "null">>, "ok", OkErr)
    /\ pc' = "get_thumbnail"
    /\ UNCHANGED <<files, index, result, output>> /\ Keep /\ KeepHandles

SHCreateItemOk ==
    /\ pc = "create_shell_item"
    /\ Ext("SHCreateItemFromParsingName", <<path, bind_ctx>>, "ok", OkErr)
    /\ pc' = "get_thumbnail"
    /\ UNCHANGED <<files, index, result, output>> /\ Keep /\ KeepHandles

\* A version of SHCreateItemErr that drops the error and requests the thumbnail.
SHCreateItemErrFallsThrough ==
    /\ pc = "create_shell_item"
    /\ Ext("SHCreateItemFromParsingName", <<path, bind_ctx>>, "err", OkErr)
    /\ pc' = "get_thumbnail"
    /\ UNCHANGED <<files, index, result, output>> /\ Keep /\ KeepHandles

\* A version of SHCreateItemErr that tries the same item again.
SHCreateItemErrRetries ==
    /\ pc = "create_shell_item"
    /\ Ext("SHCreateItemFromParsingName", <<path, bind_ctx>>, "err", OkErr)
    /\ Println(<<[line |-> "FailedToPreloadFile", err |-> "FailedToCreateShellItem"]>>)
    /\ pc' = "for"
    /\ UNCHANGED <<files, index, result>> /\ Keep /\ KeepHandles

SHCreateItemErr ==
    /\ pc = "create_shell_item"
    /\ Ext("SHCreateItemFromParsingName", <<path, bind_ctx>>, "err", OkErr)
    /\ LogLocal("FailedToCreateShellItem")
    /\ UNCHANGED <<files, result>> /\ Keep /\ KeepHandles

\* generate returned Ok(()): the body of the loop is over.
GetThumbnailOk ==
    /\ pc = "get_thumbnail"
    /\ Ext("GetThumbnail", <<path, DIMENSIONS, "WTS_FORCEEXTRACTION", thumb_cache>>, "ok", OkErr)
    /\ index' = index + 1
    /\ pc' = "for"
    /\ UNCHANGED <<files, result, output>> /\ Keep /\ KeepHandles

\* A version of GetThumbnailErr that does not print the error.
GetThumbnailErrSilent ==
    /\ pc = "get_thumbnail"
    /\ Ext("GetThumbnail", <<path, DIMENSIONS, "WTS_FORCEEXTRACTION", thumb_cache>>, "err", OkErr)
    /\ index' = index + 1
    /\ pc' = "for"
    /\ UNCHANGED <<files, result, output>> /\ Keep /\ KeepHandles

GetThumbnailErr ==
    /\ pc = "get_thumbnail"
    /\ Ext("GetThumbnail", <<path, DIMENSIONS, "WTS_FORCEEXTRACTION", thumb_cache>>, "err", OkErr)
    /\ LogLocal("FailedToGenerateThumbnail")
    /\ UNCHANGED <<files, result>> /\ Keep /\ KeepHandles

----------------------------------------------------------------------------
(* After the loop *)

StopProgressDialogOk ==
    /\ pc = "stop_dialog"
    /\ Ext("StopProgressDialog", <<>>, "ok", OkErr)
    /\ result' = "Ok"
    /\ pc' = "returned"
    /\ UNCHANGED <<files, index, output>> /\ Keep /\ KeepHandles

StopProgressDialogErr ==
    /\ pc = "stop_dialog"
    /\ Ext("StopProgressDialog", <<>>, "err", OkErr)
    /\ Fatal("FailedToHideProgressDialog")
    /\ UNCHANGED <<files, index, output>> /\ Keep /\ KeepHandles

\* main: match preload(cli.dir) { Ok(()) => ..., Err(err) => ... }
MainReport ==
    /\ pc = "returned"
    /\ Println(IF result = "Ok"
               THEN <<[line |-> "SuccessfullyPreloaded"]>>
               ELSE <<[line |-> "FailedToPreloadDirectory", err |-> result]>>)
    /\ pc' = "exit"
    /\ UNCHANGED <<files, index, result, trace>> /\ Keep /\ KeepHandles

\* The program is run a second time, in an environment that answers as it
\* did the first time.  Nothing of the first run is handed to the second:
\* every local of preload is assigned before it is read.
Rerun ==
    /\ pc = "exit"
    /\ run = 1
    /\ run' = 2
    /\ prevTrace' = trace
    /\ prevResult' = result
    /\ prevOutput' = output
    /\ trace' = <<>>
    /\ output' = <<>>
    /\ result' = "none"
    /\ pc' = "canonicalize"
    /\ UNCHANGED <<files, index, bind_ctx, thumb_cache, usize_index, usize_len>>

----------------------------------------------------------------------------
Next ==
    \/ CanonicalizeOk \/ CanonicalizeErr
    \/ ReadDirOk \/ ReadDirErr
    \/ CoInitializeOk \/ CoInitializeErr
    \/ CreateBindCtxOk \/ CreateBindCtxErr
    \/ CreateThumbCacheOk \/ CreateThumbCacheErr
    \/ CreateDialogOk \/ CreateDialogErr
    \/ SetTitleOk \/ SetTitleErr
    \/ SetLine1Ok \/ SetLine1Err
    \/ StartProgressDialogOk \/ StartProgressDialogErr
    \/ ForNext \/ ForExhausted
    \/ HasUserCancelledTrue \/ HasUserCancelledFalse
    \/ SetProgressOk \/ SetProgressErr
    \/ SetLine2Ok \/ SetLine2Err
    \/ SHCreateItemOk \/ SHCreateItemErr
    \/ GetThumbnailOk \/ GetThumbnailErr
    \/ StopProgressDialogOk \/ StopProgressDialogErr
    \/ MainReport

\* One run of the program.
Spec == Init /\ [][Next]_vars

----------------------------------------------------------------------------
(* The conversion of the progress values alone, on values of index and     *)
(* files.len() up to and beyond u32::MAX                                   *)

\* An iteration at the point of the conversions: index < files.len().
InitConv ==
    /\ pc = "convert"
    /\ files = <<>>
    /\ index = 0
    /\ result = "none"
    /\ trace = <<>>
    /\ output = <<>>
    /\ run = 1
    /\ prevTrace = <<>>
    /\ prevResult = "none"
    /\ prevOutput = <<>>
    /\ bind_ctx = "null"
    /\ thumb_cache = "null"
    /\ usize_index \in UsizeSamples
    /\ usize_len \in UsizeSamples
    /\ UsizeLess(usize_index, usize_len)

Unconverted == UNCHANGED <<files, index, result, output>> /\ Keep /\ KeepHandles

\* Both try_into() calls give a value.
ConvertOk ==
    /\ pc = "convert"
    /\ TryFromUsize(usize_index) # <<>>
    /\ TryFromUsize(usize_len) # <<>>
    /\ pc' = "set_progress_u32"
    /\ UNCHANGED trace /\ Unconverted

\* One of the try_into() calls gives no value: expect panics.
ConvertPanics ==
    /\ pc = "convert"
    /\ (TryFromUsize(usize_index) = <<>> \/ TryFromUsize(usize_len) = <<>>)
    /\ pc' = "panicked"
    /\ UNCHANGED trace /\ Unconverted

\* (current, total) as passed to SetProgress.
ProgressArgsU32 == <<TryFromUsize(usize_index)[1], TryFromUsize(usize_len)[1]>>

SetProgressU32Ok ==
    /\ pc = "set_progress_u32"
    /\ Ext("SetProgress", ProgressArgsU32, "ok", OkErr)
    /\ pc' = "set_line2_u32"
    /\ Unconverted

SetProgressU32Err ==
    /\ pc = "set_progress_u32"
    /\ Ext("SetProgress", ProgressArgsU32, "err", OkErr)
    /\ Fatal("FailedToUpdateProgressDialog")
    /\ UNCHANGED <<files, index, output>> /\ Keep /\ KeepHandles

NextConv == ConvertOk \/ ConvertPanics \/ SetProgressU32Ok \/ SetProgressU32Err

SpecConv == InitConv /\ [][NextConv]_vars

----------------------------------------------------------------------------
\* One run in which every external call returns, so that the step the
\* program is at is eventually taken.
SpecFair == Init /\ [][Next]_vars /\ WF_vars(Next)

NextTwice == Next \/ Rerun

\* Two runs of the program, the second with the environment of the first.
SpecTwice == Init /\ [][NextTwice]_vars

----------------------------------------------------------------------------
(* What a run did, read off the history of its external calls *)

CallsOf(c) == SelectSeq(trace, LAMBDA e : e.call = c)

\* The Forcer (generate) is invoked once per SHCreateItemFromParsingName
\* call, the first thing generate does.
ForcerCalls == CallsOf("SHCreateItemFromParsingName")
ForcedPaths == [i \in 1..Len(ForcerCalls) |-> ForcerCalls[i].arg[1]]
PollCalls == CallsOf("HasUserCancelled")
UpdateCalls == CallsOf("SetProgress")
StopCalls == CallsOf("StopProgressDialog")

IsUpdate(e) == e.call = "SetProgress" \/ (e.call = "SetLine" /\ e.arg[1] = 2)
IsSetup(e) ==
    \/ e.call \in {"canonicalize", "read_dir", "CoInitialize", "CreateBindCtx",
                   "CoCreateInstanceThumbnailCache", "CoCreateInstanceProgressDialog",
                   "SetTitle", "StartProgressDialog"}
    \/ (e.call = "SetLine" /\ e.arg[1] = 1)
IsLoopCall(e) ==
    \/ e.call \in {"HasUserCancelled", "SHCreateItemFromParsingName", "GetThumbnail"}
    \/ IsUpdate(e)

Cancelled == \E i \in DOMAIN trace : trace[i].call = "HasUserCancelled" /\ trace[i].resp = "true"
UpdateFailed == \E i \in DOMAIN trace : IsUpdate(trace[i]) /\ trace[i].resp = "err"
SetupFailed == \E i \in DOMAIN trace : IsSetup(trace[i]) /\ trace[i].resp = "err"
TeardownFailed == \E i \in DOMAIN trace : trace[i].call = "StopProgressDialog" /\ trace[i].resp = "err"
LoopEntered == \E i \in DOMAIN trace : trace[i].call = "StartProgressDialog" /\ trace[i].resp = "ok"
Returned == pc \in {"returned", "exit"}
Exhausted == LoopEntered /\ ~Cancelled /\ index >= Len(files)
                 /\ pc \in {"stop_dialog", "returned", "exit"}
LoopEnded == Cancelled \/ Exhausted

LinesOf(l) == SelectSeq(output, LAMBDA o : o.line = l)
\* The errors of the "Failed to preload file" lines, in order.
LoggedErrs == [i \in 1..Len(LinesOf("FailedToPreloadFile")) |-> LinesOf("FailedToPreloadFile")[i].err]
\* The errors generate returned, in order.
GenerateErrCalls ==
    SelectSeq(trace, LAMBDA e : e.call \in {"SHCreateItemFromParsingName", "GetThumbnail"}
                                /\ e.resp = "err")
GenerateErrs ==
    [i \in 1..Len(GenerateErrCalls) |->
        IF GenerateErrCalls[i].call = "GetThumbnail"
        THEN "FailedToGenerateThumbnail" ELSE "FailedToCreateShellItem"]
GenerateOks == SelectSeq(trace, LAMBDA e : e.call = "GetThumbnail" /\ e.resp = "ok")

----------------------------------------------------------------------------
(* Claims *)

\* C1: once the loop is entered, without cancellation and without a failed
\* progress update, whatever per-item Forcer failures occur, the Forcer is
\* invoked for every file of the list, in order, and preload returns Ok.
C1_PartialFailureNeverAborts ==
    (Returned /\ LoopEntered /\ ~Cancelled /\ ~UpdateFailed)
        => (ForcedPaths = files /\ result = "Ok")

\* C2: when the poll before item k is the first to answer true, the Forcer was
\* invoked for exactly the items 0..k-1, exactly k updates were made, the run
\* ends without error and teardown was invoked.
C2_CancelBeforeK ==
    (Returned /\ Cancelled)
        => LET k == Len(PollCalls) - 1
           IN  /\ ForcedPaths = SubSeq(files, 1, k)
               /\ Len(UpdateCalls) = k
               /\ Len(StopCalls) = 1
               /\ result = "Ok"

\* C3: StopProgressDialog is called only after the loop has ended, as the last
\* external call of the run (so at most once and after every poll, update and
\* Forcer call), and exactly once in every run whose loop ended by exhaustion
\* or by cancellation.
C3_TeardownExactlyOnce ==
    /\ \A i \in DOMAIN trace :
         trace[i].call = "StopProgressDialog" => (i = Len(trace) /\ LoopEnded)
    /\ (Returned /\ LoopEnded) => Len(StopCalls) = 1

C3_Witness ==
    /\ pc = "exit" /\ Cancelled /\ Len(ForcerCalls) = 2 /\ Len(files) = 3
    /\ Len(StopCalls) = 1

\* C4: a run whose loop ended by exhaustion or by cancellation returns Ok,
\* also when StopProgressDialog fails.
C4_TeardownFailureNotFatal ==
    (Returned /\ LoopEnded) => result = "Ok"

\* C5: when a setup stage has failed, the run is over with that stage's fatal
\* error, and no poll, progress update or Forcer call was made.
C5_SetupFailureNoLoopWork ==
    SetupFailed =>
        /\ Returned
        /\ result \in {"InvalidDirectory", "FailedToReadDirectory", "FailedToInitialiseCOM",
                       "FailedToCreateBindContext", "FailedToCreateThumbnailCache",
                       "FailedToCreateProgressDialog", "FailedToShowProgressDialog"}
        /\ \A i \in DOMAIN trace : ~IsLoopCall(trace[i])

C5_Witness ==
    /\ pc = "exit" /\ result = "FailedToShowProgressDialog" /\ Len(files) = 3
    /\ Len(ForcerCalls) = 0 /\ Len(PollCalls) = 0 /\ Len(UpdateCalls) = 0

\* C6: with an empty file list and every setup stage succeeding, the run
\* returns Ok with no Forcer call, no progress update and one teardown.
C6_EmptyListSucceeds ==
    (Returned /\ LoopEntered /\ Len(files) = 0)
        => /\ result = "Ok"
           /\ Len(ForcerCalls) = 0
           /\ Len(UpdateCalls) = 0
           /\ Len(StopCalls) = 1

\* C7: the j-th progress update of a run carries (j-1, N), N the length of
\* the file list; there is one update per Forcer call (and one more while an
\* item is under way); the index never exceeds N; with 3 files, no
\* cancellation and no failed update the updates are (0,3),(1,3),(2,3) and the
\* Forcer is called 3 times.
C7_ProgressValues ==
    /\ \A j \in 1..Len(UpdateCalls) :
         /\ UpdateCalls[j].arg = <<j - 1, Len(files)>>
         /\ UpdateCalls[j].arg[1] <= UpdateCalls[j].arg[2]
    /\ Len(ForcerCalls) <= Len(UpdateCalls)
    /\ Len(UpdateCalls) <= Len(ForcerCalls) + 1
    /\ index <= Len(files)
    /\ (Returned /\ LoopEntered /\ ~Cancelled /\ ~UpdateFailed /\ Len(files) = 3)
         => /\ [j \in 1..Len(UpdateCalls) |-> UpdateCalls[j].arg] = <<<<0, 3>>, <<1, 3>>, <<2, 3>>>>
            /\ Len(ForcerCalls) = 3

C7_Witness ==
    /\ pc = "exit" /\ Len(files) = 3 /\ ~Cancelled
    /\ Len(UpdateCalls) = 3 /\ Len(ForcerCalls) = 3

\* C8: the "Failed to preload file" lines are, in order, the errors of the
\* Forcer calls that failed, one line each and none for a call that succeeded;
\* in a run that returns Ok without cancellation the number of files forced
\* successfully is N minus the number of these lines.
C8_OneLogLinePerFailure ==
    /\ LoggedErrs = GenerateErrs
    /\ (Returned /\ result = "Ok" /\ ~Cancelled)
         => /\ Len(ForcerCalls) = Len(files)
            /\ Len(GenerateOks) = Len(files) - Len(LoggedErrs)

C8_Witness ==
    /\ pc = "exit" /\ result = "Ok" /\ ~Cancelled /\ Len(files) = 3
    /\ LoggedErrs = <<"FailedToGenerateThumbnail", "FailedToCreateShellItem">>
    /\ Len(GenerateOks) = 1

C10_SecondRunSame ==
    run = 2 =>
        /\ Len(trace) <= Len(prevTrace)
        /\ trace = SubSeq(prevTrace, 1, Len(trace))
        /\ Len(output) <= Len(prevOutput)
        /\ output = SubSeq(prevOutput, 1, Len(output))
        /\ pc = "exit" => (trace = prevTrace /\ output = prevOutput /\ result = prevResult)

C10_Witness ==
    /\ run = 2 /\ pc = "exit" /\ result = "Ok" /\ Len(files) = 3
    /\ Len(prevTrace) = Len(trace)
    /\ LoggedErrs = <<"FailedToCreateShellItem">>
    /\ Len(ForcerCalls) = 3

\* C11: in every iteration the calls are, in this order, HasUserCancelled,
\* SetProgress, SetLine(2, path), then the Forcer: each of them directly
\* follows the one before it, which answered false (the poll) or ok; after a
\* poll that answered true no poll, update or Forcer call is made.
C11_PollThenUpdateThenForcer ==
    \A i \in DOMAIN trace :
        /\ trace[i].call = "SetProgress"
             => /\ i > 1
                /\ trace[i - 1].call = "HasUserCancelled"
                /\ trace[i - 1].resp = "false"
        /\ (trace[i].call = "SetLine" /\ trace[i].arg[1] = 2)
             => /\ trace[i - 1].call = "SetProgress"
                /\ trace[i - 1].resp = "ok"
                /\ trace[i].arg[2] = files[trace[i - 1].arg[1] + 1]
        /\ trace[i].call = "SHCreateItemFromParsingName"
             => /\ trace[i - 1].call = "SetLine"
                /\ trace[i - 1].resp = "ok"
                /\ trace[i - 1].arg = <<2, trace[i].arg[1]>>
        /\ (trace[i].call = "HasUserCancelled" /\ trace[i].resp = "true")
             => \A j \in DOMAIN trace : j > i => ~IsLoopCall(trace[j])

C11_Witness ==
    /\ pc = "exit" /\ Len(files) = 3 /\ Cancelled
    /\ Len(PollCalls) = 3 /\ Len(ForcerCalls) = 2 /\ Len(StopCalls) = 1

\* C12: a failed progress update (SetProgress or SetLine(2, ..)) for item i
\* is the last external call of the run: preload returns
\* FailedToUpdateProgressDialog, and the Forcer was invoked for the files
\* 0..i-1 and for no other.
C12_UpdateFailureAborts ==
    \A i \in DOMAIN trace :
        (IsUpdate(trace[i]) /\ trace[i].resp = "err")
            => /\ i = Len(trace)
               /\ Returned
               /\ result = "FailedToUpdateProgressDialog"
               /\ ForcedPaths = SubSeq(files, 1, Len(UpdateCalls) - 1)
               /\ Len(PollCalls) = Len(UpdateCalls)

C12_Witness ==
    /\ pc = "exit" /\ result = "FailedToUpdateProgressDialog" /\ Len(files) = 3
    /\ trace[Len(trace)].call = "SetLine"
    /\ Len(UpdateCalls) = 2 /\ Len(ForcerCalls) = 1

\* C13: a run that has shown the progress dialog calls StopProgressDialog
\* before it returns, on every exit path.
C13_TeardownOnEveryExit ==
    (Returned /\ LoopEntered) => Len(StopCalls) = 1

\* C14: the paths passed to the Forcer are a prefix of the file list, one
\* call per file (the paths of the list are distinct, so no file is passed
\* twice and none is retried), the thumbnail requests follow the same order,
\* and the file list stays what the enumeration made it.
C14_ForcerInListOrder ==
    /\ Len(ForcerCalls) <= Len(files)
    /\ \A i \in 1..Len(ForcerCalls) : ForcedPaths[i] = files[i]
    /\ \A i, j \in 1..Len(files) : files[i] = files[j] => i = j
    /\ \A i, j \in 1..Len(CallsOf("GetThumbnail")) :
         i < j => \E a, b \in 1..Len(files) :
                     /\ a < b
                     /\ CallsOf("GetThumbnail")[i].arg[1] = files[a]
                     /\ CallsOf("GetThumbnail")[j].arg[1] = files[b]
    /\ \A i \in DOMAIN trace :
         (trace[i].call = "read_dir" /\ trace[i].resp = "ok") => files = Collect(trace[i].data)
    /\ Len(ForcerCalls) \in {index, index + 1}

C14_Witness ==
    /\ pc = "exit" /\ Len(files) = 3 /\ ForcedPaths = files
    /\ LoggedErrs = <<"FailedToCreateShellItem", "FailedToGenerateThumbnail">>

\* C15: the first external calls of a run are the setup stages, each once
\* and in the order canonicalize, read_dir, CoInitialize, CreateBindCtx,
\* thumbnail cache, progress dialog, SetTitle, SetLine(1), StartProgressDialog;
\* every later call (polls, updates, Forcer calls, teardown) comes after all
\* of them succeeded; every Forcer call passes the bind context and the cache
\* handle the setup created.
C15_SetupOnceInOrder ==
    LET order == <<"canonicalize", "read_dir", "CoInitialize", "CreateBindCtx",
                   "CoCreateInstanceThumbnailCache", "CoCreateInstanceProgressDialog",
                   "SetTitle", "SetLine", "StartProgressDialog">>
    IN  \A i \in DOMAIN trace :
          /\ i <= Len(order) => (trace[i].call = order[i] /\ IsSetup(trace[i]))
          /\ i > Len(order)
               => /\ ~IsSetup(trace[i])
                  /\ \A k \in 1..Len(order) : trace[k].resp = "ok"
          /\ IsLoopCall(trace[i]) => i > Len(order)
          /\ trace[i].call = "SHCreateItemFromParsingName"
               => (trace[i].arg[2] = trace[4].data[1] /\ trace[i].arg[2] = bind_ctx)
          /\ trace[i].call = "GetThumbnail"
               => (trace[i].arg[4] = trace[5].data[1] /\ trace[i].arg[4] = thumb_cache)

C15_Witness ==
    /\ pc = "exit" /\ Len(files) = 2 /\ Len(ForcerCalls) = 2
    /\ bind_ctx = "ctx_b" /\ thumb_cache = "cache_a"
    /\ Len(CallsOf("GetThumbnail")) = 2

\* C16: a failed setup stage is the first failure and the last external call
\* of the run (no later stage, no retry), and preload returns the tag of that
\* stage; no stage is called twice; FailedToCreateShellItem and
\* FailedToGenerateThumbnail are never what preload returns.
C16_FirstFailedStageTag ==
    LET tags == <<"InvalidDirectory", "FailedToReadDirectory", "FailedToInitialiseCOM",
                  "FailedToCreateBindContext", "FailedToCreateThumbnailCache",
                  "FailedToCreateProgressDialog", "FailedToCreateProgressDialog",
                  "FailedToCreateProgressDialog", "FailedToShowProgressDialog">>
        stage(e) == IF e.call = "SetLine" THEN "SetLine1" ELSE e.call
    IN  /\ \A i \in DOMAIN trace :
             (IsSetup(trace[i]) /\ trace[i].resp = "err")
                 => /\ i = Len(trace)
                    /\ i <= Len(tags)
                    /\ \A k \in 1..(i - 1) : trace[k].resp = "ok"
                    /\ Returned
                    /\ result = tags[i]
        /\ \A i, j \in DOMAIN trace :
             (i < j /\ IsSetup(trace[i]) /\ IsSetup(trace[j])) => stage(trace[i]) # stage(trace[j])
        /\ result \notin {"FailedToCreateShellItem", "FailedToGenerateThumbnail"}

C16_Witness ==
    /\ pc = "exit" /\ result = "FailedToCreateThumbnailCache"
    /\ Len(trace) = 5 /\ trace[5].resp = "err"
    /\ output[Len(output)] = [line |-> "FailedToPreloadDirectory", err |-> "FailedToCreateThumbnailCache"]

\* C17: after a listing of N entries was read, the file list holds exactly
\* the entries that were read and canonicalized, in listing order (so at most
\* N), and the run goes on; preload returns FailedToReadDirectory exactly
\* when read_dir itself failed.
C17_FileListIsCanonicalSubsequence ==
    /\ \A t \in DOMAIN trace :
         (trace[t].call = "read_dir" /\ trace[t].resp = "ok")
             => LET listing == trace[t].data
                IN  /\ Len(files) <= Len(listing)
                    /\ \A j \in 1..Len(files) :
                         files[j] \in 1..Len(listing) /\ listing[files[j]] = "ok"
                    /\ \A j, k \in 1..Len(files) : j < k => files[j] < files[k]
                    /\ \A i \in 1..Len(listing) :
                         listing[i] = "ok" => \E j \in 1..Len(files) : files[j] = i
                    /\ t = Len(trace) => (pc = "co_initialize" /\ result = "none")
    /\ result = "FailedToReadDirectory"
         <=> \E t \in DOMAIN trace : trace[t].call = "read_dir" /\ trace[t].resp = "err"

C17_Witness ==
    /\ pc = "exit" /\ result = "Ok"
    /\ trace[2].data = <<"canon_err", "ok", "read_err">>
    /\ files = <<2>> /\ ForcedPaths = <<2>>

\* C18: a thumbnail request directly follows the successful shell-item
\* creation for the same path and asks for size 72 with forced extraction;
\* a failed shell-item creation is followed by no thumbnail request and is
\* printed as FailedToCreateShellItem; no path gets two shell-item creations
\* or two thumbnail requests.
C18_ThumbnailOnlyAfterShellItem ==
    LET thumbs == CallsOf("GetThumbnail")
    IN  /\ \A i \in DOMAIN trace :
             /\ trace[i].call = "GetThumbnail"
                  => /\ i > 1
                     /\ trace[i - 1].call = "SHCreateItemFromParsingName"
                     /\ trace[i - 1].resp = "ok"
                     /\ trace[i - 1].arg[1] = trace[i].arg[1]
                     /\ trace[i].arg[2] = 72
                     /\ trace[i].arg[3] = "WTS_FORCEEXTRACTION"
             /\ (trace[i].call = "SHCreateItemFromParsingName" /\ trace[i].resp = "err")
                  => (i < Len(trace) => trace[i + 1].call # "GetThumbnail")
        /\ Len(SelectSeq(ForcerCalls, LAMBDA e : e.resp = "err"))
             = Len(SelectSeq(output, LAMBDA o : o.line = "FailedToPreloadFile"
                                                /\ o.err = "FailedToCreateShellItem"))
        /\ \A i, j \in 1..Len(ForcerCalls) : i < j => ForcerCalls[i].arg[1] # ForcerCalls[j].arg[1]
        /\ \A i, j \in 1..Len(thumbs) : i < j => thumbs[i].arg[1] # thumbs[j].arg[1]

C18_Witness ==
    /\ pc = "exit" /\ Len(files) = 3 /\ Len(ForcerCalls) = 3
    /\ Len(CallsOf("GetThumbnail")) = 2
    /\ LoggedErrs = <<"FailedToCreateShellItem">>

\* C19: when every external call returns, the run ends (main has printed its
\* report); preload returns once, Ok or one error, and the result never
\* changes afterwards; the loop is entered at most N times for N files, and
\* the iteration that starts is always the one after those already started.
C19_Terminates ==
    /\ <>(pc = "exit")
    /\ [](Returned <=> result # "none")
    /\ [][result # "none" => result' = result]_vars
    /\ [](Len(PollCalls) <= Len(files))
    /\ [](pc \in {"for", "poll"} => Len(PollCalls) = index)
    /\ [][index' >= index]_vars

C19_Witness ==
    /\ pc = "exit" /\ Len(files) = 3 /\ Len(PollCalls) = 3
    /\ result = "Ok" /\ Len(LoggedErrs) = 3

\* C20: the values passed to SetProgress are the index and the length
\* themselves: SetProgress is called only when both are at most 2^32 - 1, with
\* exactly these values; when one of them is larger the run panics at the
\* conversion and SetProgress is not called; no value that fits panics.
C20_NoWrapAround ==
    LET fits == usize_index.hi = 0 /\ usize_len.hi = 0
    IN  /\ \A i \in DOMAIN trace :
             trace[i].call = "SetProgress"
                 => /\ fits
                    /\ trace[i].arg = <<[mid |-> usize_index.mid, lo |-> usize_index.lo],
                                        [mid |-> usize_len.mid, lo |-> usize_len.lo]>>
        /\ (pc # "convert" /\ ~fits) => (pc = "panicked" /\ trace = <<>>)
        /\ pc = "panicked" => ~fits

C20_Witness ==
    /\ pc = "panicked"
    /\ usize_index = [hi |-> 0, mid |-> 65535, lo |-> 65535]
    /\ usize_len = [hi |-> 1, mid |-> 0, lo |-> 0]

====
